---- MODULE Spec2Model ----
(***************************************************************************)
(* Liveness protocol and status reconciliation of verinexus-speedtest.     *)
(*                                                                         *)
(*   src/check.py  the central watchdog: perform_keepalive_check,          *)
(*                 perform_heartbeat_write, refresh_suspended_devices,     *)
(*                 driven by the timers of check_node_status               *)
(*   src/test.py   the device-side agent: write_keepalive, the status loop *)
(*                 of monitor_device with write_status_to_influxdb and     *)
(*                 clean_exit, calculate_uptime_percentages,               *)
(*                 check_internet_connectivity                             *)
(*   src/admin_app.py  the admin console: add_endpoint, delete_endpoint    *)
(*                                                                         *)
(* Specifications:                                                         *)
(*   Spec          one watchdog, the agents' keepalives, the administrator *)
(*   SpecExit      Spec with the termination of the watchdog               *)
(*   SpecRepl      two watchdog processes against one store                *)
(*   SpecAgent     the status loop of one agent, a watchdog writing        *)
(*   SpecUptime    one call of the uptime calculation                      *)
(*   SpecProbe     the connectivity probe on every outcome of its calls    *)
(*   SpecSettings  the start of both processes on every settings content   *)
(*   SpecSnapshot  both processes running while the settings are changed   *)
(*   SpecDevices   one agent against a store with another device's records *)
(*   SpecStable    agent and watchdog of one device, inputs constant, fair *)
(*   SpecUnsuspended  the watchdog after the suspension of a device ended  *)
(*   SpecAdmin     the admin console: add and delete requests in threads   *)
(*                                                                         *)
(* Time is discrete.  One unit of `now` is one period of the watchdog's    *)
(* main loop scaled so that the two settings CHECKALIVE and HEARTBEAT are  *)
(* small numbers.  The InfluxDB measurements keepalive, device_status and  *)
(* suspended_devices are the shared store.  Every store call of the code   *)
(* may raise; the handlers' try/except blocks decide what happens then.    *)
(***************************************************************************)
EXTENDS Integers, Sequences, FiniteSets, TLC

\* ------------------------------------------------------------------ bounds
MaxTime == 6
\* environment events in one run: store calls that raise, administrative
\* actions and keepalive emissions
MaxEvents == 3
\* status events of the agent's device in the store when its uptime is computed
MaxPoints == 2
\* uuid4() values drawn in one run of the admin console, the one of the
\* example.com point included
MaxIds == 4

\* settings read once at start (check.py 113, 119), in model time units
CHECKALIVE == 2
HEARTBEAT == 3

\* float('inf'): the time_diff of a device without keepalive record
Inf == 1000000

Devices == {"mac1", "mac2"}

Status == {"up", "down", "maintenance", "unknown"}
None == "none"

VARIABLES
    now,                        \* wall clock (time.time() / datetime.utcnow())
    keepalive,                  \* store: keepalive measurement, per device the timestamps of its records
    device_status,              \* store: device_status measurement, per device the appended events
    suspended_store,            \* store: suspended_devices measurement
    suspended_devices,          \* watchdog memory: dict refreshed from the store
    node_statuses,              \* watchdog memory: last status written per device
    last_keepalive_check_time,  \* watchdog loop timer
    last_heartbeat_time,        \* watchdog loop timer
    agent_pc,                   \* per device: position of the agent inside write_keepalive
    last_keepalive_sent,        \* history: time of the last keepalive a device inserted, -1 if never
    prev_check,                 \* history: what the previous reconciliation tick computed
    faults,                     \* history: number of store calls that have raised
    events,                     \* number of environment events so far
    last_pass                   \* history: what the pass that has just run did

\* the agent's uptime calculation (src/test.py calculate_uptime_percentages)
VARIABLES
    current_status,             \* agent memory: status_info["current_status"]
    uptime_percentage,          \* agent memory: status_info["uptime_percentage_<period>"]
    calc,                       \* position inside calculate_uptime_percentages
    last_calc                   \* history: what the period that has just been computed saw

uptime_vars == <<current_status, uptime_percentage, calc, last_calc>>

\* the agent's connectivity probe (src/test.py check_internet_connectivity)
VARIABLES
    probe,                      \* the endpoint of a call and what ping and the HTTP request do
    probe_result                \* how the call ended

probe_vars == <<probe, probe_result>>

\* the start of both processes (check.py check_node_status, test.py monitor_device)
VARIABLES
    settings_store,             \* store: settings measurement, per setting name its last value
    settings_query,             \* what the settings query of a starting process does
    watchdog_proc,              \* the watchdog process and the settings it runs with
    agent_proc                  \* the agent process and the settings it runs with

settings_vars == <<settings_store, settings_query, watchdog_proc, agent_proc>>

\* termination of the watchdog (check.py clean_exit)
VARIABLES
    watchdog_running            \* the watchdog process has not exited

exit_vars == <<watchdog_running>>

\* the agent's status loop (test.py monitor_device, write_status_to_influxdb)
VARIABLES
    network_up,                 \* the probe of the agent succeeds (and no disconnect is simulated)
    status_events,              \* agent memory: the local cache of status events
    last_status_written,        \* agent memory: local of monitor_device
    agent_loop,                 \* position in the loop iteration, and its current_time
    agent_running,              \* the agent process has not exited
    last_check,                 \* history: what the status check that has just run did
    last_append                 \* history: the last write of status events to the store

agent_vars == <<network_up, status_events, last_status_written, agent_loop,
                agent_running, last_check, last_append>>

\* two watchdog processes against one store (check.py run twice)
VARIABLES
    replica                     \* per instance: the module globals and timers of its process,
                                \* and (history) what its last reconciliation tick saw

replica_vars == <<replica>>

\* the admin console (src/admin_app.py add_endpoint, delete_endpoint)
VARIABLES
    endpoints,                  \* store: endpoints measurement, the points with tag_id and fields
    add_request,                \* per request thread: position inside add_endpoint, and its form
    ids_issued,                 \* number of uuid4() values drawn so far
    last_add                    \* history: how the last add_endpoint step ended

admin_vars == <<endpoints, add_request, ids_issued, last_add>>

\* the variables that the watchdog, write_keepalive and the administrative
\* actions leave alone
ext_vars == <<uptime_vars, probe_vars, settings_vars, exit_vars, agent_vars, replica_vars,
              admin_vars>>
other_than_uptime == <<probe_vars, settings_vars, exit_vars, agent_vars, replica_vars,
                       admin_vars>>
other_than_probe == <<uptime_vars, settings_vars, exit_vars, agent_vars, replica_vars,
                      admin_vars>>
other_than_settings == <<uptime_vars, probe_vars, exit_vars, agent_vars, replica_vars,
                         admin_vars>>
other_than_exit == <<uptime_vars, probe_vars, settings_vars, agent_vars, replica_vars,
                     admin_vars>>
other_than_agent == <<uptime_percentage, calc, last_calc, probe_vars, settings_vars,
                      exit_vars, replica_vars, admin_vars>>
other_than_replica == <<uptime_vars, probe_vars, settings_vars, exit_vars, agent_vars,
                        admin_vars>>
other_than_admin == <<uptime_vars, probe_vars, settings_vars, exit_vars, agent_vars,
                      replica_vars>>

vars == <<now, keepalive, device_status, suspended_store, suspended_devices,
          node_statuses, last_keepalive_check_time, last_heartbeat_time,
          agent_pc, last_keepalive_sent, prev_check, faults, events, last_pass,
          ext_vars>>

\* ------------------------------------------------------------------ helpers
Max(S) == CHOOSE x \in S : \A y \in S : y <= x

\* every iteration order of a Python set
Orders(S) ==
    {s \in [1..Cardinality(S) -> S] : \A i, j \in 1..Cardinality(S) : s[i] = s[j] => i = j}

NoneMap == [d \in Devices |-> None]

\* SELECT LAST(field_status) FROM device_status WHERE tag_mac_address = d
LastStatus(ds, d) == IF ds[d] = <<>> THEN None ELSE ds[d][Len(ds[d])].status

LastStatusMap(ds) == [d \in Devices |-> LastStatus(ds, d)]

\* SELECT LAST(field_mac_address) FROM keepalive GROUP BY tag_mac_address
KeepaliveSeries == {d \in Devices : keepalive[d] # {}}

TimeDiff(d) == IF d \in KeepaliveSeries THEN now - Max(keepalive[d]) ELSE Inf

StatusEvent(s, by) == [status |-> s, time |-> now, by |-> by]

NoPass ==
    [kind |-> "none", order |-> <<>>, evaluated |-> {}, new_status |-> NoneMap,
     attempted |-> {}, written |-> {}, error |-> "none", err_dev |-> None,
     refresh_failed |-> FALSE, pre_node |-> NoneMap, pre_last |-> NoneMap,
     prev_eff |-> NoneMap, prev_failed |-> None]

NoPrevCheck == [eff |-> NoneMap, failed |-> None]

\* ------------------------------------------------------------------ Init
\* the agent: DEVICE_MAC (test.py 96)
DEVICE_MAC == "mac1"

\* calculate_uptime_percentages, the dict periods, in model time units
PeriodNames == <<"hour", "day", "month">>
period_seconds == [hour |-> 2, day |-> 4, month |-> 6]

\* a percentage is the exact quotient num / den of the float the code computes
Percent(num, den) == [num |-> num, den |-> den]
Zero == Percent(0, 1)
Hundred == Percent(100, 1)

NoCalc == [period |-> None, now |-> 0, points |-> <<>>, raised |-> FALSE,
           current_status |-> None, result |-> Zero]

\* status_info as the module creates it (test.py 58-60), nothing being computed
UptimeInit ==
    /\ current_status = "unknown"
    /\ uptime_percentage = [p \in {"hour", "day", "month"} |-> Zero]
    /\ calc = [pc |-> "idle", period |-> 1, now |-> 0]
    /\ last_calc = NoCalc

\* how a call ends: it returns a value or raises an exception
Return(v) == [kind |-> "return", value |-> v]
Raise(e) == [kind |-> "raise", value |-> e]
NotCalled == [kind |-> "none", value |-> None]

\* DETECTION_ENDPOINT settings
Endpoints == {"ipv4", "ipv6", "hostname", "http_url", "https_url"}
\* subprocess.check_call of ping: exit status 0, 1 (no reply), 2 (error), or
\* the command cannot be started
PingOutcomes == {"exit0", "exit1", "exit2", "OSError"}
\* requests.get: a response with its status code, or an exception
HttpOutcomes ==
    {[exc |-> "none", status_code |-> c] : c \in {200, 204, 404, 500}}
        \cup {[exc |-> e, status_code |-> 0] : e \in {"Timeout", "ConnectionError"}}
ProbeInputs == [endpoint : Endpoints, ping : PingOutcomes, http : HttpOutcomes]

\* no probe is running
ProbeInit ==
    /\ probe = [endpoint |-> "ipv4", ping |-> "exit0",
                http |-> [exc |-> "none", status_code |-> 200]]
    /\ probe_result = NotCalled

\* the numeric settings and their defaults (check.py 113-122, test.py 388-393)
WatchdogSettings == {"CHECKALIVE", "HEARTBEAT"}
AgentSettings == {"STATUS_INTERVAL", "KEEPALIVE", "NODE_UPDATE", "ALERT_THRESHOLD"}
SettingNames == WatchdogSettings \cup AgentSettings
Defaults ==
    [CHECKALIVE |-> 120, HEARTBEAT |-> 300, KEEPALIVE |-> 60,
     STATUS_INTERVAL |-> 2, NODE_UPDATE |-> 120, ALERT_THRESHOLD |-> 120]

\* the value of a setting in the store: no row, a number, or not a number
Absent == "absent"
SettingValues == {Absent, "7", "abc"}

\* a process before its start: no settings dict read, no local assigned, no
\* loop iteration run (used: the settings the last iteration worked with)
NotStarted(names) ==
    [state |-> "init", value |-> [n \in names |-> 0],
     settings |-> [n \in SettingNames |-> Absent],
     iterated |-> FALSE, used |-> [n \in names |-> 0]]

\* no process has started, the store holds no numeric setting
SettingsInit ==
    /\ settings_store = [n \in SettingNames |-> Absent]
    /\ settings_query = "rows"
    /\ watchdog_proc = NotStarted(WatchdogSettings)
    /\ agent_proc = NotStarted(AgentSettings)

\* the watchdog runs
ExitInit == watchdog_running = TRUE

NoCheck == [computed |-> None, store_last |-> None, read_failed |-> FALSE,
            queued |-> FALSE, suspended |-> FALSE]
NoAppend == [by |-> None, first_time |-> 0, latest_stored |-> 0]

\* monitor_device before its loop (test.py 415-441): nothing cached
AgentInit ==
    /\ network_up = TRUE
    /\ status_events = <<>>
    /\ last_status_written = FALSE
    /\ agent_loop = [pc |-> "top", current_time |-> 0]
    /\ agent_running = TRUE
    /\ last_check = NoCheck
    /\ last_append = NoAppend

Instances == {"a", "b"}

\* a watchdog process started at time start, before its first pass
NewReplica(start) ==
    [node_statuses |-> NoneMap, suspended_devices |-> {},
     last_keepalive_check_time |-> start, last_heartbeat_time |-> start,
     tick |-> [done |-> FALSE, keepalive |-> [d \in Devices |-> {}],
               suspended_store |-> {}, events |-> 0, eff |-> NoneMap]]

ReplicaInit == replica = [i \in Instances |-> NewReplica(0)]

\* the request threads of the admin console (app.run: the server handles
\* requests in threads)
Requests == {"r1", "r2"}
NoForm == [endpoint |-> None, endpoint_type |-> None, any_check |-> FALSE]
NoAdd == [request |-> None, outcome |-> None, before |-> {}]

\* create_database_if_not_exists has put the point of example.com into the
\* empty measurement; no request is being handled
AdminInit ==
    /\ endpoints = {[tag_id |-> 0, field_endpoint |-> "hostname", field_type |-> "FQDN"]}
    /\ add_request = [r \in Requests |-> [pc |-> "idle", form |-> NoForm]]
    /\ ids_issued = 1
    /\ last_add = NoAdd

\* the state outside the watchdog, the store and write_keepalive
RestInit ==
    /\ UptimeInit /\ ProbeInit /\ SettingsInit /\ ExitInit /\ AgentInit /\ ReplicaInit
    /\ AdminInit

WatchdogInit ==
    /\ now = 0
    /\ keepalive = [d \in Devices |-> {}]
    /\ device_status = [d \in Devices |-> <<>>]
    /\ suspended_store = {}
    /\ suspended_devices = {}
    /\ node_statuses = NoneMap
    /\ last_keepalive_check_time = 0
    /\ last_heartbeat_time = 0
    /\ agent_pc = [d \in Devices |-> "idle"]
    /\ last_keepalive_sent = [d \in Devices |-> -1]
    /\ prev_check = NoPrevCheck
    /\ faults = 0
    /\ events = 0
    /\ last_pass = NoPass

Init == WatchdogInit /\ RestInit

\* ------------------------------------------------------------------ watchdog (src/check.py)

\* mutant: the dict is cleared before the query
refresh_suspended_devices_Emptied(query_fails) ==
    IF query_fails THEN {} ELSE suspended_store

\* refresh_suspended_devices: the query raises before clear(), or the dict is
\* replaced by the mac addresses of the measurement
refresh_suspended_devices(query_fails) ==
    IF query_fails THEN suspended_devices ELSE suspended_store

\* mutant: a keepalive as old as the timeout already counts as missing
NewStatus_AtTimeout(is_suspended, time_diff) ==
    IF is_suspended THEN "maintenance"
    ELSE IF time_diff >= CHECKALIVE THEN "down"
    ELSE "up"

\* mutant: the timeout is tested before the suspension
NewStatus_TimeoutFirst(is_suspended, time_diff) ==
    IF time_diff > CHECKALIVE THEN "down"
    ELSE IF is_suspended THEN "maintenance"
    ELSE "up"

\* perform_keepalive_check, "Determine the new status"
NewStatus(is_suspended, time_diff) ==
    IF is_suspended THEN "maintenance"
    ELSE IF time_diff > CHECKALIVE THEN "down"
    ELSE "up"

\* accumulator of one pass over all_devices
StartPass(kind, refresh_failed) ==
    [kind |-> kind, order |-> <<>>, evaluated |-> {}, new_status |-> NoneMap,
     attempted |-> {}, written |-> {}, error |-> "none", err_dev |-> None,
     refresh_failed |-> refresh_failed,
     pre_node |-> node_statuses, pre_last |-> LastStatusMap(device_status),
     prev_eff |-> prev_check.eff, prev_failed |-> prev_check.failed,
     ns |-> node_statuses, ds |-> device_status]

\* mutant: the status written is not recorded in node_statuses
CheckDevice_NoRecord(acc, d, susp, fault) ==
    IF fault = "status_query"
    THEN [acc EXCEPT !.error = "status_query", !.err_dev = d]
    ELSE
      LET new_status == NewStatus(d \in susp, TimeDiff(d))
          seen == [acc EXCEPT !.evaluated = @ \cup {d}, !.new_status[d] = new_status]
      IN  IF acc.ns[d] = None \/ acc.ns[d] # new_status
          THEN IF fault = "write"
               THEN [seen EXCEPT !.attempted = @ \cup {d},
                                 !.error = "write", !.err_dev = d]
               ELSE [seen EXCEPT !.attempted = @ \cup {d},
                                 !.written = @ \cup {d},
                                 !.ds[d] = Append(@, StatusEvent(new_status, "check"))]
          ELSE seen

\* mutant: node_statuses is assigned before write_points is called
CheckDevice_RecordFirst(acc, d, susp, fault) ==
    IF fault = "status_query"
    THEN [acc EXCEPT !.error = "status_query", !.err_dev = d]
    ELSE
      LET new_status == NewStatus(d \in susp, TimeDiff(d))
          seen == [acc EXCEPT !.evaluated = @ \cup {d}, !.new_status[d] = new_status]
      IN  IF acc.ns[d] = None \/ acc.ns[d] # new_status
          THEN IF fault = "write"
               THEN [seen EXCEPT !.attempted = @ \cup {d}, !.ns[d] = new_status,
                                 !.error = "write", !.err_dev = d]
               ELSE [seen EXCEPT !.attempted = @ \cup {d},
                                 !.written = @ \cup {d},
                                 !.ds[d] = Append(@, StatusEvent(new_status, "check")),
                                 !.ns[d] = new_status]
          ELSE seen

\* perform_keepalive_check, body of "for mac_address in all_devices" for one
\* device; fault is the store call that raises for this device, if any
CheckDevice(acc, d, susp, fault) ==
    IF fault = "status_query"
    THEN [acc EXCEPT !.error = "status_query", !.err_dev = d]
    ELSE
      LET new_status == NewStatus(d \in susp, TimeDiff(d))
          seen == [acc EXCEPT !.evaluated = @ \cup {d}, !.new_status[d] = new_status]
      IN  IF acc.ns[d] = None \/ acc.ns[d] # new_status
          THEN IF fault = "write"
               THEN [seen EXCEPT !.attempted = @ \cup {d},
                                 !.error = "write", !.err_dev = d]
               ELSE [seen EXCEPT !.attempted = @ \cup {d},
                                 !.written = @ \cup {d},
                                 !.ds[d] = Append(@, StatusEvent(new_status, "check")),
                                 !.ns[d] = new_status]
          ELSE seen

\* mutant: the heartbeat reaffirms the status of node_statuses for every device
HeartbeatDevice_NodeOnly(acc, d, susp, fault) ==
    LET last_status == IF acc.ns[d] # None THEN acc.ns[d] ELSE "unknown"
        seen == [acc EXCEPT !.evaluated = @ \cup {d}, !.new_status[d] = last_status,
                            !.attempted = @ \cup {d}]
    IN  IF fault = "write"
        THEN [seen EXCEPT !.error = "write", !.err_dev = d]
        ELSE [seen EXCEPT !.written = @ \cup {d},
                          !.ds[d] = Append(@, StatusEvent(last_status, "heartbeat"))]

\* perform_heartbeat_write, body of "for mac_address in all_devices" for one device
HeartbeatDevice(acc, d, susp, fault) ==
    LET last_status == IF d \in susp THEN "maintenance"
                       ELSE IF acc.ns[d] # None THEN acc.ns[d] ELSE "unknown"
        seen == [acc EXCEPT !.evaluated = @ \cup {d}, !.new_status[d] = last_status,
                            !.attempted = @ \cup {d}]
    IN  IF fault = "write"
        THEN [seen EXCEPT !.error = "write", !.err_dev = d]
        ELSE [seen EXCEPT !.written = @ \cup {d},
                          !.ds[d] = Append(@, StatusEvent(last_status, "heartbeat"))]

\* the store call that raises in a pass: none, or one call at the at-th device
Faults(n) ==
    {[at |-> 0, kind |-> "none"]}
        \cup {[at |-> i, kind |-> k] : i \in 1..n, k \in {"status_query", "write"}}

FaultAt(fault, i) == IF fault.at = i THEN fault.kind ELSE "none"

\* the for loop: the first exception leaves the loop (one try around the whole pass)
RECURSIVE RunPass(_, _, _, _, _)
RunPass(order, i, acc, susp, fault) ==
    IF i > Len(order) \/ acc.error # "none" THEN acc
    ELSE RunPass(order, i + 1,
                 IF acc.kind = "check"
                 THEN CheckDevice(acc, order[i], susp, FaultAt(fault, i))
                 ELSE HeartbeatDevice(acc, order[i], susp, FaultAt(fault, i)),
                 susp, fault)

\* what a pass leaves behind for the history variable
Observed(r, order) ==
    [kind |-> r.kind, order |-> order, evaluated |-> r.evaluated,
     new_status |-> r.new_status, attempted |-> r.attempted, written |-> r.written,
     error |-> r.error, err_dev |-> r.err_dev, refresh_failed |-> r.refresh_failed,
     pre_node |-> r.pre_node, pre_last |-> r.pre_last,
     prev_eff |-> r.prev_eff, prev_failed |-> r.prev_failed]

\* the chosen call is one the pass makes, and the calls of the pass that raised
Raised(r, fault) == (fault.kind # "none") <=> (r.error # "none")
NumRaised(r, refresh_fails) ==
    (IF refresh_fails THEN 1 ELSE 0) + (IF r.error # "none" THEN 1 ELSE 0)

\* mutant: reconciliation runs once per two timeouts and a loop tick
KeepaliveCheckDue_Slow == now - last_keepalive_check_time >= 2 * CHECKALIVE + 1

KeepaliveCheckDue == now - last_keepalive_check_time >= CHECKALIVE
HeartbeatDue == now - last_heartbeat_time >= HEARTBEAT

\* check_node_status lines 145-147 with perform_keepalive_check
perform_keepalive_check ==
    /\ KeepaliveCheckDue
    /\ last_keepalive_check_time' = now
    /\ \/ \* the keepalive query raises: nothing else of the pass runs
          /\ events < MaxEvents
          /\ faults' = faults + 1
          /\ events' = events + 1
          /\ last_pass' = [Observed(StartPass("check", FALSE), <<>>)
                              EXCEPT !.error = "keepalive_query"]
          /\ prev_check' = NoPrevCheck
          /\ UNCHANGED <<suspended_devices, node_statuses, device_status>>
       \/ \E refresh_fails \in BOOLEAN :
            LET susp == refresh_suspended_devices(refresh_fails)
                all_devices == susp \cup KeepaliveSeries
            IN  \E order \in Orders(all_devices) : \E fault \in Faults(Len(order)) :
                  LET r == RunPass(order, 1, StartPass("check", refresh_fails), susp, fault)
                  IN  /\ Raised(r, fault)
                      /\ events + NumRaised(r, refresh_fails) <= MaxEvents
                      /\ faults' = faults + NumRaised(r, refresh_fails)
                      /\ events' = events + NumRaised(r, refresh_fails)
                      /\ suspended_devices' = susp
                      /\ node_statuses' = r.ns
                      /\ device_status' = r.ds
                      /\ last_pass' = Observed(r, order)
                      /\ prev_check' = [eff |-> r.new_status,
                                        failed |-> IF r.error = "write" THEN r.err_dev ELSE None]
    /\ UNCHANGED ext_vars
    /\ UNCHANGED <<now, keepalive, suspended_store, last_heartbeat_time,
                   agent_pc, last_keepalive_sent>>

\* check_node_status lines 150-152 with perform_heartbeat_write; in one loop
\* iteration the heartbeat comes after the keepalive check
perform_heartbeat_write ==
    /\ HeartbeatDue
    /\ ~KeepaliveCheckDue
    /\ last_heartbeat_time' = now
    /\ \E refresh_fails \in BOOLEAN :
         LET susp == refresh_suspended_devices(refresh_fails)
         IN  /\ suspended_devices' = susp
             /\ \/ \* the device_status query raises
                   /\ events + 1 + (IF refresh_fails THEN 1 ELSE 0) <= MaxEvents
                   /\ faults' = faults + 1 + (IF refresh_fails THEN 1 ELSE 0)
                   /\ events' = events + 1 + (IF refresh_fails THEN 1 ELSE 0)
                   /\ last_pass' = [Observed(StartPass("heartbeat", refresh_fails), <<>>)
                                       EXCEPT !.error = "device_status_query"]
                   /\ UNCHANGED device_status
                \/ LET all_devices == susp \cup {d \in Devices : device_status[d] # <<>>}
                   IN  \E order \in Orders(all_devices) : \E fault \in Faults(Len(order)) :
                         /\ fault.kind # "status_query"
                         /\ LET r == RunPass(order, 1, StartPass("heartbeat", refresh_fails),
                                             susp, fault)
                            IN  /\ Raised(r, fault)
                                /\ events + NumRaised(r, refresh_fails) <= MaxEvents
                                /\ faults' = faults + NumRaised(r, refresh_fails)
                                /\ events' = events + NumRaised(r, refresh_fails)
                                /\ device_status' = r.ds
                                /\ last_pass' = Observed(r, order)
    /\ UNCHANGED ext_vars
    /\ UNCHANGED <<now, keepalive, suspended_store, node_statuses,
                   last_keepalive_check_time, agent_pc, last_keepalive_sent, prev_check>>

\* ------------------------------------------------------------------ agent (src/test.py)

\* mutant: the DELETE has no WHERE clause
delete_keepalive_All(d) == [e \in Devices |-> {}]

\* mutant: the old records are not deleted
delete_keepalive_Skipped(d) == keepalive

\* DELETE FROM keepalive WHERE tag_mac_address = d
delete_keepalive(d) == [keepalive EXCEPT ![d] = {}]

\* write_points of one keepalive record timestamped datetime.utcnow()
insert_keepalive(d) == [keepalive EXCEPT ![d] = @ \cup {now}]

\* write_keepalive, the DELETE query; when it raises the insert is skipped
write_keepalive_delete(d) ==
    /\ agent_pc[d] # "deleted"
    /\ events < MaxEvents
    /\ \/ /\ keepalive' = delete_keepalive(d)
          /\ agent_pc' = [agent_pc EXCEPT ![d] = "deleted"]
          /\ events' = events + 1
          /\ UNCHANGED faults
       \/ /\ events + 1 < MaxEvents
          /\ faults' = faults + 1
          /\ events' = events + 2
          /\ agent_pc' = [agent_pc EXCEPT ![d] = "idle"]
          /\ UNCHANGED keepalive
    /\ last_pass' = NoPass
    /\ UNCHANGED ext_vars
    /\ UNCHANGED <<now, device_status, suspended_store, suspended_devices, node_statuses,
                   last_keepalive_check_time, last_heartbeat_time, last_keepalive_sent,
                   prev_check>>

\* write_keepalive, write_points of the one new record; "written" marks a
\* call that has returned without exception in the current time unit
write_keepalive_insert(d) ==
    /\ agent_pc[d] = "deleted"
    /\ \/ /\ keepalive' = insert_keepalive(d)
          /\ agent_pc' = [agent_pc EXCEPT ![d] = "written"]
          /\ last_keepalive_sent' = [last_keepalive_sent EXCEPT ![d] = now]
          /\ UNCHANGED <<faults, events>>
       \/ /\ events < MaxEvents
          /\ faults' = faults + 1
          /\ events' = events + 1
          /\ agent_pc' = [agent_pc EXCEPT ![d] = "idle"]
          /\ UNCHANGED <<keepalive, last_keepalive_sent>>
    /\ last_pass' = NoPass
    /\ UNCHANGED ext_vars
    /\ UNCHANGED <<now, device_status, suspended_store, suspended_devices, node_statuses,
                   last_keepalive_check_time, last_heartbeat_time, prev_check>>

\* ------------------------------------------------------------------ environment

\* the administrative action that adds a device to the suspension set
Suspend(d) ==
    /\ d \notin suspended_store
    /\ events < MaxEvents
    /\ events' = events + 1
    /\ suspended_store' = suspended_store \cup {d}
    /\ last_pass' = NoPass
    /\ UNCHANGED ext_vars
    /\ UNCHANGED <<now, keepalive, device_status, suspended_devices, node_statuses,
                   last_keepalive_check_time, last_heartbeat_time, agent_pc,
                   last_keepalive_sent, prev_check, faults>>

\* the administrative action that removes a device from the suspension set
Unsuspend(d) ==
    /\ d \in suspended_store
    /\ events < MaxEvents
    /\ events' = events + 1
    /\ suspended_store' = suspended_store \ {d}
    /\ last_pass' = NoPass
    /\ UNCHANGED ext_vars
    /\ UNCHANGED <<now, keepalive, device_status, suspended_devices, node_statuses,
                   last_keepalive_check_time, last_heartbeat_time, agent_pc,
                   last_keepalive_sent, prev_check, faults>>

\* one second of the watchdog loop passes (time.sleep(1)); the loop runs the
\* passes that are due before the clock moves on, and a keepalive emission
\* that has begun completes within the same unit
Tick ==
    /\ now < MaxTime
    /\ ~KeepaliveCheckDue
    /\ ~HeartbeatDue
    /\ \A d \in Devices : agent_pc[d] # "deleted"
    /\ now' = now + 1
    /\ agent_pc' = [d \in Devices |-> "idle"]
    /\ last_pass' = NoPass
    /\ UNCHANGED ext_vars
    /\ UNCHANGED <<keepalive, device_status, suspended_store, suspended_devices,
                   node_statuses, last_keepalive_check_time, last_heartbeat_time,
                   last_keepalive_sent, prev_check, faults, events>>

Next ==
    \/ perform_keepalive_check
    \/ perform_heartbeat_write
    \/ \E d \in Devices : write_keepalive_delete(d)
    \/ \E d \in Devices : write_keepalive_insert(d)
    \/ \E d \in Devices : Suspend(d)
    \/ \E d \in Devices : Unsuspend(d)
    \/ Tick

Spec == Init /\ [][Next]_vars

\* ------------------------------------------------------------------ agent: uptime (src/test.py)

\* the store as the other definitions leave it
store_rest == <<keepalive, suspended_store>>
watchdog_memory == <<suspended_devices, node_statuses, last_keepalive_check_time,
                     last_heartbeat_time, prev_check, last_pass>>
keepalive_memory == <<agent_pc, last_keepalive_sent>>
watchdog_vars == <<now, device_status, faults, events, store_rest, watchdog_memory,
                   keepalive_memory>>

\* SELECT * FROM device_status WHERE time > period_start
\*   AND tag_mac_address = DEVICE_MAC ORDER BY time ASC
PointsSince(period_start) ==
    SelectSeq(device_status[DEVICE_MAC], LAMBDA e : e.time > period_start)

\* mutant: the walk starts as if the device had been up before the window
WalkStart_Up(period_start) ==
    [total_time |-> 0, uptime |-> 0, last_time |-> period_start, last_status |-> "up"]

\* the accumulators before the loop over the points
WalkStart(period_start) ==
    [total_time |-> 0, uptime |-> 0, last_time |-> period_start, last_status |-> None]

\* one pass of "for point in points"; the code after the loop accounts for the
\* time since the last point in the same way, with now as the time point
WalkStep(acc, time_point, status) ==
    LET duration == time_point - acc.last_time
    IN  [total_time |-> acc.total_time + duration,
         uptime |-> IF acc.last_status = "up" THEN acc.uptime + duration ELSE acc.uptime,
         last_time |-> time_point,
         last_status |-> status]

RECURSIVE Walk(_, _, _)
Walk(points, i, acc) ==
    IF i > Len(points) THEN acc
    ELSE Walk(points, i + 1, WalkStep(acc, points[i].time, points[i].status))

\* the value assigned to uptime_percentage for one period
UptimeOf(points, sampled_now, period_start, cur_status) ==
    IF points = <<>>
    THEN IF cur_status = "up" THEN Hundred ELSE Zero
    ELSE LET w == WalkStep(Walk(points, 1, WalkStart(period_start)), sampled_now, None)
         IN  IF w.total_time > 0 THEN Percent(100 * w.uptime, w.total_time) ELSE Zero

\* calculate_uptime_percentages, "now = datetime.utcnow()" of the next period
calculate_uptime_sample ==
    /\ calc.pc = "idle"
    /\ calc' = [calc EXCEPT !.pc = "sampled", !.now = now]
    /\ last_calc' = NoCalc
    /\ UNCHANGED <<current_status, uptime_percentage>>
    /\ UNCHANGED <<now, device_status, faults, events, store_rest, watchdog_memory,
                   keepalive_memory>>
    /\ UNCHANGED other_than_uptime

\* mutant: only the percentage of the period that failed is reset
uptime_error_PeriodOnly(percentages, name) == [percentages EXCEPT ![name] = Zero]

\* calculate_uptime_percentages, the except clause: the exception raised while
\* period `name` is computed is logged and all three percentages are set to 0.0
uptime_error(percentages, name) == [p \in DOMAIN percentages |-> Zero]

\* calculate_uptime_percentages, the query and the computation of one period;
\* an exception of the query or of strptime sets all three percentages to 0.0
\* and ends the call, as does the last period
calculate_uptime_period ==
    /\ calc.pc = "sampled"
    /\ LET name == PeriodNames[calc.period]
           period_start == calc.now - period_seconds[name]
           points == PointsSince(period_start)
           result == UptimeOf(points, calc.now, period_start, current_status)
       IN  \/ /\ events' = events + 1
              /\ faults' = faults + 1
              /\ uptime_percentage' = uptime_error(uptime_percentage, name)
              /\ calc' = [pc |-> "returned", period |-> 1, now |-> 0]
              /\ last_calc' = [NoCalc EXCEPT !.period = name, !.now = calc.now,
                                             !.raised = TRUE]
           \/ /\ uptime_percentage' = [uptime_percentage EXCEPT ![name] = result]
              /\ calc' = IF calc.period = Len(PeriodNames)
                         THEN [pc |-> "returned", period |-> 1, now |-> 0]
                         ELSE [pc |-> "idle", period |-> calc.period + 1, now |-> 0]
              /\ last_calc' = [period |-> name, now |-> calc.now, points |-> points,
                               raised |-> FALSE, current_status |-> current_status,
                               result |-> result]
              /\ UNCHANGED <<events, faults>>
    /\ UNCHANGED current_status
    /\ UNCHANGED <<now, device_status, store_rest, watchdog_memory, keepalive_memory>>
    /\ UNCHANGED other_than_uptime

\* the calculation tells "up" from every other status and nothing else
RecordedStatus == {"up", "down"}

\* before and during one call of calculate_uptime_percentages: a status event
\* of DEVICE_MAC reaches the store, written by the agent or by a watchdog and
\* timestamped with the clock of the writer
RecordStatusEvent(s) ==
    /\ calc.pc # "returned"
    /\ Len(device_status[DEVICE_MAC]) < MaxPoints
    /\ UNCHANGED events
    /\ device_status' = [device_status EXCEPT
                            ![DEVICE_MAC] = Append(@, StatusEvent(s, "writer"))]
    /\ last_calc' = NoCalc
    /\ UNCHANGED <<current_status, uptime_percentage, calc>>
    /\ UNCHANGED <<now, faults, store_rest, watchdog_memory, keepalive_memory>>
    /\ UNCHANGED other_than_uptime

\* before and during one call of calculate_uptime_percentages: time passes
ClockTick ==
    /\ calc.pc # "returned"
    /\ now < MaxTime
    /\ now' = now + 1
    /\ last_calc' = NoCalc
    /\ UNCHANGED <<current_status, uptime_percentage, calc>>
    /\ UNCHANGED <<device_status, faults, events, store_rest, watchdog_memory,
                   keepalive_memory>>
    /\ UNCHANGED other_than_uptime

\* one call of the uptime calculation, on every status history and every
\* current status
InitUptime ==
    /\ WatchdogInit
    /\ current_status \in Status
    /\ uptime_percentage = [p \in {"hour", "day", "month"} |-> Zero]
    /\ calc = [pc |-> "idle", period |-> 1, now |-> 0]
    /\ last_calc = NoCalc
    /\ ProbeInit
    /\ SettingsInit
    /\ ExitInit
    /\ AgentInit
    /\ ReplicaInit
    /\ AdminInit

NextUptime ==
    \/ calculate_uptime_sample
    \/ calculate_uptime_period
    \/ \E s \in RecordedStatus : RecordStatusEvent(s)
    \/ ClockTick

SpecUptime == InitUptime /\ [][NextUptime]_vars

\* ------------------------------------------------------------------ agent: probe (src/test.py)

\* ipaddress.ip_address(endpoint) does not raise ValueError
IsIPLiteral(endpoint) == endpoint \in {"ipv4", "ipv6"}

\* the inner try block: ip_address, then ping
ping_branch(endpoint, ping) ==
    IF ~IsIPLiteral(endpoint) THEN Raise("ValueError")
    ELSE IF ping = "exit0" THEN Return("True")
    ELSE IF ping = "OSError" THEN Raise("OSError")
    ELSE Raise("CalledProcessError")

\* mutant: any response counts
url_branch_AnyResponse(http) ==
    IF http.exc # "none" THEN Raise(http.exc)
    ELSE Return("True")

\* the handler of ValueError: requests.get and the status code
url_branch(http) ==
    IF http.exc # "none" THEN Raise(http.exc)
    ELSE Return(IF http.status_code = 200 THEN "True" ELSE "False")

\* check_internet_connectivity: "except ValueError" catches the inner try,
\* "except Exception" whatever the inner try or its handler raises
check_internet_connectivity(endpoint, ping, http) ==
    LET inner == ping_branch(endpoint, ping)
        body == IF inner.kind = "raise" /\ inner.value = "ValueError"
                THEN url_branch(http)
                ELSE inner
    IN  IF body.kind = "raise" THEN Return("False") ELSE body

\* a status check of the agent calls the probe
probe_call ==
    /\ probe_result = NotCalled
    /\ probe_result' = check_internet_connectivity(probe.endpoint, probe.ping, probe.http)
    /\ UNCHANGED probe
    /\ UNCHANGED <<watchdog_vars, other_than_probe>>

\* the next status check finds the network in any condition
probe_next ==
    /\ probe_result # NotCalled
    /\ probe' \in ProbeInputs
    /\ probe_result' = NotCalled
    /\ UNCHANGED <<watchdog_vars, other_than_probe>>

InitProbe ==
    /\ WatchdogInit
    /\ UptimeInit
    /\ probe \in ProbeInputs
    /\ probe_result = NotCalled
    /\ SettingsInit
    /\ ExitInit
    /\ AgentInit
    /\ ReplicaInit
    /\ AdminInit

NextProbe == probe_call \/ probe_next

SpecProbe == InitProbe /\ [][NextProbe]_vars

\* ------------------------------------------------------------------ start of the processes

\* get_settings of either process: None when the query raises or returns no
\* rows, else the dict of the rows
get_settings ==
    IF settings_query = "rows"
    THEN [available |-> TRUE, values |-> settings_store]
    ELSE [available |-> FALSE, values |-> [n \in SettingNames |-> Absent]]

\* mutant: the processes go on without settings
NoSettings_GoOn(settings) == FALSE

\* "if not settings": both processes report "No settings available" and return
NoSettings(settings) == ~settings.available

\* int(settings.get(name, default))
int_setting(settings, name) ==
    IF settings.values[name] = Absent THEN Return(Defaults[name])
    ELSE IF settings.values[name] = "7" THEN Return(7)
    ELSE Raise("ValueError")

\* check.py: try: int(...) except ValueError: the default
watchdog_setting(settings, name) ==
    LET v == int_setting(settings, name)
    IN  IF v.kind = "raise" THEN Defaults[name] ELSE v.value

\* check_node_status up to its main loop
check_node_status_start ==
    /\ watchdog_proc.state = "init"
    /\ LET settings == get_settings
       IN  watchdog_proc' =
              IF NoSettings(settings)
              THEN [watchdog_proc EXCEPT !.state = "returned"]
              ELSE [watchdog_proc EXCEPT
                       !.state = "main_loop",
                       !.settings = settings.values,
                       !.value = [n \in WatchdogSettings |-> watchdog_setting(settings, n)]]
    /\ UNCHANGED <<settings_store, settings_query, agent_proc>>
    /\ UNCHANGED <<watchdog_vars, other_than_settings>>

\* monitor_device up to its main loop; an exception of int() leaves
\* monitor_device and ends the process
monitor_device_start ==
    /\ agent_proc.state = "init"
    /\ LET settings == get_settings
       IN  agent_proc' =
              IF NoSettings(settings)
              THEN [agent_proc EXCEPT !.state = "returned"]
              ELSE IF \E n \in AgentSettings : int_setting(settings, n).kind = "raise"
              THEN [agent_proc EXCEPT !.state = "crashed"]
              ELSE [agent_proc EXCEPT
                       !.state = "main_loop",
                       !.settings = settings.values,
                       !.value = [n \in AgentSettings |-> int_setting(settings, n).value]]
    /\ UNCHANGED <<settings_store, settings_query, watchdog_proc>>
    /\ UNCHANGED <<watchdog_vars, other_than_settings>>

\* both processes start against every content of the settings measurement
InitSettings ==
    /\ WatchdogInit
    /\ UptimeInit
    /\ ProbeInit
    /\ settings_store \in [SettingNames -> SettingValues]
    /\ settings_query \in {"rows", "no_rows", "raises"}
    /\ watchdog_proc = NotStarted(WatchdogSettings)
    /\ agent_proc = NotStarted(AgentSettings)
    /\ ExitInit
    /\ AgentInit
    /\ ReplicaInit
    /\ AdminInit

NextSettings == check_node_status_start \/ monitor_device_start

SpecSettings == InitSettings /\ [][NextSettings]_vars

\* ------------------------------------------------------------------ settings during the main loops

\* mutant: every loop iteration reads the settings measurement again
loop_settings_Reread(proc) ==
    [n \in DOMAIN proc.value |-> watchdog_setting(get_settings, n)]

\* the settings a loop iteration works with: the locals assigned before the
\* loop (check.py threshold, heartbeat_interval; test.py status_check_interval,
\* keepalive_interval, node_update_interval, alert_threshold); neither loop
\* calls get_settings
loop_settings(proc) == proc.value

\* one iteration of the main loop of check_node_status
watchdog_loop_iteration ==
    /\ watchdog_proc.state = "main_loop"
    /\ watchdog_proc' = [watchdog_proc EXCEPT !.iterated = TRUE,
                                              !.used = loop_settings(watchdog_proc)]
    /\ watchdog_proc' # watchdog_proc
    /\ UNCHANGED <<settings_store, settings_query, agent_proc>>
    /\ UNCHANGED <<watchdog_vars, other_than_settings>>

\* one iteration of the main loop of monitor_device
agent_loop_iteration ==
    /\ agent_proc.state = "main_loop"
    /\ agent_proc' = [agent_proc EXCEPT !.iterated = TRUE,
                                        !.used = loop_settings(agent_proc)]
    /\ agent_proc' # agent_proc
    /\ UNCHANGED <<settings_store, settings_query, watchdog_proc>>
    /\ UNCHANGED <<watchdog_vars, other_than_settings>>

\* the administrator changes a setting in the store, adds or removes its row
ChangeSetting(n, v) ==
    /\ events < MaxEvents
    /\ events' = events + 1
    /\ settings_store[n] # v
    /\ settings_store' = [settings_store EXCEPT ![n] = v]
    /\ UNCHANGED <<settings_query, watchdog_proc, agent_proc>>
    /\ UNCHANGED <<now, device_status, faults, store_rest, watchdog_memory,
                   keepalive_memory>>
    /\ UNCHANGED other_than_settings

NextSnapshot ==
    \/ check_node_status_start
    \/ monitor_device_start
    \/ watchdog_loop_iteration
    \/ agent_loop_iteration
    \/ \E n \in SettingNames : \E v \in SettingValues : ChangeSetting(n, v)

\* both processes start at any time while the administrator edits the
\* settings, and run their loops
SpecSnapshot == Init /\ [][NextSnapshot]_vars

\* ------------------------------------------------------------------ termination of the watchdog

\* clean_exit of check.py, the handler of SIGINT and SIGTERM and of the key
\* 'q': it logs, ends curses and exits; no store call
watchdog_clean_exit ==
    /\ watchdog_running
    /\ watchdog_running' = FALSE
    /\ last_pass' = NoPass
    /\ UNCHANGED <<now, keepalive, device_status, suspended_store, suspended_devices,
                   node_statuses, last_keepalive_check_time, last_heartbeat_time,
                   agent_pc, last_keepalive_sent, prev_check, faults, events>>
    /\ UNCHANGED other_than_exit

\* the watchdog with its termination; the passes and the loop's clock stop
\* with the process, the agents and the administrator go on
NextExit ==
    \/ watchdog_running /\ perform_keepalive_check
    \/ watchdog_running /\ perform_heartbeat_write
    \/ \E d \in Devices : write_keepalive_delete(d)
    \/ \E d \in Devices : write_keepalive_insert(d)
    \/ \E d \in Devices : Suspend(d)
    \/ \E d \in Devices : Unsuspend(d)
    \/ watchdog_running /\ Tick
    \/ watchdog_clean_exit

SpecExit == Init /\ [][NextExit]_vars

\* ------------------------------------------------------------------ agent: status loop (src/test.py)

\* the time of the latest point of a device in the store, -1 without points
LatestTime(ds, d) == IF ds[d] = <<>> THEN -1 ELSE ds[d][Len(ds[d])].time

\* mutant: a point replaces the stored points that are later than it
StoreInsert_Overwrite(seq, e) ==
    LET before == SelectSeq(seq, LAMBDA x : x.time <= e.time)
    IN  before \o <<e>>

\* write_points of one point: the measurement is ordered by time, a point goes
\* behind the points that are not later than it
StoreInsert(seq, e) ==
    LET before == SelectSeq(seq, LAMBDA x : x.time <= e.time)
        after == SelectSeq(seq, LAMBDA x : x.time > e.time)
    IN  before \o <<e>> \o after

\* write_points(json_body) of the cached events, each with its own timestamp
RECURSIVE StoreInsertAll(_, _, _)
StoreInsertAll(seq, cache, i) ==
    IF i > Len(cache) THEN seq
    ELSE StoreInsertAll(
            StoreInsert(seq, [status |-> cache[i].status, time |-> cache[i].timestamp,
                              by |-> "agent"]),
            cache, i + 1)

\* what a write of the cache leaves behind for the history variable
AppendOf(cache) ==
    IF cache = <<>> THEN NoAppend
    ELSE [by |-> "agent", first_time |-> cache[1].timestamp,
          latest_stored |-> LatestTime(device_status, DEVICE_MAC)]

\* get_last_status_from_db: None without result and when the query raises
get_last_status_from_db(query_fails) ==
    IF query_fails THEN None ELSE LastStatus(device_status, DEVICE_MAC)

\* check_if_suspended: False when the query raises
check_if_suspended(query_fails) ==
    IF query_fails THEN FALSE ELSE DEVICE_MAC \in suspended_store

\* monitor_device, top of the loop: current_time of the iteration
monitor_loop_begin ==
    /\ agent_running
    /\ agent_loop.pc = "top"
    /\ agent_loop' = [pc |-> "sampled", current_time |-> now]
    /\ last_check' = NoCheck
    /\ last_append' = NoAppend
    /\ UNCHANGED <<network_up, status_events, last_status_written, agent_running,
                   current_status>>
    /\ UNCHANGED <<watchdog_vars, other_than_agent>>

\* monitor_device, the status check of an iteration in which it is due; the
\* probe returns at once or takes a second (ping -W 1, requests timeout=5)
status_check ==
    /\ agent_running
    /\ agent_loop.pc = "sampled"
    /\ \E probe_time \in {0, 1} :
         /\ now + probe_time <= MaxTime
         /\ now' = now + probe_time
    /\ \E susp_fails \in BOOLEAN : \E last_fails \in BOOLEAN :
         LET n == (IF susp_fails THEN 1 ELSE 0) + (IF last_fails THEN 1 ELSE 0)
             status == IF check_if_suspended(susp_fails) THEN "maintenance"
                       ELSE IF network_up THEN "up" ELSE "down"
             last_db_status == get_last_status_from_db(last_fails)
         IN  /\ events + n <= MaxEvents
             /\ events' = events + n
             /\ faults' = faults + n
             /\ current_status' = status
             /\ IF status # last_db_status
                THEN /\ status_events' =
                           Append(status_events,
                                  [status |-> status, timestamp |-> agent_loop.current_time])
                     /\ last_status_written' = FALSE
                ELSE UNCHANGED <<status_events, last_status_written>>
             /\ last_check' = [computed |-> status,
                               store_last |-> LastStatus(device_status, DEVICE_MAC),
                               read_failed |-> last_fails,
                               queued |-> status # last_db_status,
                               suspended |-> DEVICE_MAC \in suspended_store]
    /\ agent_loop' = [agent_loop EXCEPT !.pc = "checked"]
    /\ last_append' = NoAppend
    /\ UNCHANGED <<network_up, agent_running>>
    /\ UNCHANGED <<device_status, store_rest, watchdog_memory, keepalive_memory,
                   other_than_agent>>

\* write_status_to_influxdb: the cache is written and cleared, or write_points
\* raises and the cache is kept; nothing is written with an empty cache
\* unless force_write
write_status_to_influxdb(force_write) ==
    IF status_events # <<>> \/ force_write
    THEN \/ /\ device_status' =
                  [device_status EXCEPT
                      ![DEVICE_MAC] = StoreInsertAll(@, status_events, 1)]
            /\ status_events' = <<>>
            /\ last_append' = AppendOf(status_events)
            /\ UNCHANGED <<faults, events>>
         \/ /\ events < MaxEvents
            /\ events' = events + 1
            /\ faults' = faults + 1
            /\ last_append' = NoAppend
            /\ UNCHANGED <<device_status, status_events>>
    ELSE /\ last_append' = NoAppend
         /\ UNCHANGED <<device_status, status_events, faults, events>>

\* monitor_device, "if not last_status_written" and the end of the iteration
write_step ==
    /\ agent_running
    /\ agent_loop.pc = "checked"
    /\ IF ~last_status_written
       THEN write_status_to_influxdb(FALSE)
       ELSE /\ last_append' = NoAppend
            /\ UNCHANGED <<device_status, status_events, faults, events>>
    /\ last_status_written' = TRUE
    /\ agent_loop' = [agent_loop EXCEPT !.pc = "sleep"]
    /\ last_check' = NoCheck
    /\ UNCHANGED <<network_up, agent_running, current_status>>
    /\ UNCHANGED <<now, store_rest, watchdog_memory, keepalive_memory, other_than_agent>>

\* monitor_device, time.sleep(1) at the end of the iteration.  One time unit
\* is STATUS_INTERVAL: the iterations in which the status check is not due
\* find last_status_written set and change nothing
agent_sleep ==
    /\ agent_running
    /\ agent_loop.pc = "sleep"
    /\ now < MaxTime
    /\ now' = now + 1
    /\ agent_loop' = [agent_loop EXCEPT !.pc = "top"]
    /\ last_check' = NoCheck
    /\ last_append' = NoAppend
    /\ UNCHANGED <<network_up, status_events, last_status_written, agent_running,
                   current_status>>
    /\ UNCHANGED <<device_status, faults, events, store_rest, watchdog_memory,
                   keepalive_memory, other_than_agent>>

\* clean_exit of test.py, the handler of SIGINT and SIGTERM and of the key 'q'
agent_clean_exit ==
    /\ agent_running
    /\ write_status_to_influxdb(TRUE)
    /\ agent_running' = FALSE
    /\ last_check' = NoCheck
    /\ UNCHANGED <<network_up, last_status_written, agent_loop, current_status>>
    /\ UNCHANGED <<now, store_rest, watchdog_memory, keepalive_memory, other_than_agent>>

\* the network of the device fails or recovers (or the keys 'd' and 'c')
NetworkChange ==
    /\ events < MaxEvents
    /\ events' = events + 1
    /\ network_up' = ~network_up
    /\ last_check' = NoCheck
    /\ last_append' = NoAppend
    /\ UNCHANGED <<status_events, last_status_written, agent_loop, agent_running,
                   current_status>>
    /\ UNCHANGED <<now, device_status, faults, store_rest, watchdog_memory,
                   keepalive_memory, other_than_agent>>

\* a reconciliation tick or a heartbeat pass of the watchdog writes a status
\* of the agent's device, timestamped utcnow()
watchdog_status_write(s) ==
    /\ events < MaxEvents
    /\ events' = events + 1
    /\ device_status' = [device_status EXCEPT
                            ![DEVICE_MAC] = Append(@, StatusEvent(s, "watchdog"))]
    /\ last_append' = [by |-> "watchdog", first_time |-> now,
                       latest_stored |-> LatestTime(device_status, DEVICE_MAC)]
    /\ last_check' = NoCheck
    /\ UNCHANGED <<network_up, status_events, last_status_written, agent_loop,
                   agent_running, current_status>>
    /\ UNCHANGED <<now, faults, store_rest, watchdog_memory, keepalive_memory,
                   other_than_agent>>

NextAgent ==
    \/ monitor_loop_begin
    \/ status_check
    \/ write_step
    \/ agent_clean_exit
    \/ NetworkChange
    \/ \E s \in Status : watchdog_status_write(s)
    \/ Suspend(DEVICE_MAC)
    \/ Unsuspend(DEVICE_MAC)
    \/ agent_sleep

SpecAgent == Init /\ [][NextAgent]_vars

\* ------------------------------------------------------------------ two watchdog instances

ReplicaCheckDue(i) == now - replica[i].last_keepalive_check_time >= CHECKALIVE
ReplicaHeartbeatDue(i) == now - replica[i].last_heartbeat_time >= HEARTBEAT

\* the accumulator of a pass of instance i: its own node_statuses
ReplicaStartPass(i, kind) ==
    [StartPass(kind, FALSE) EXCEPT !.ns = replica[i].node_statuses,
                                   !.pre_node = replica[i].node_statuses]

NoFault == [at |-> 0, kind |-> "none"]

\* perform_keepalive_check of instance i, no store call raising
replica_keepalive_check(i) ==
    /\ ReplicaCheckDue(i)
    /\ LET susp == suspended_store
           all_devices == susp \cup KeepaliveSeries
       IN  \E order \in Orders(all_devices) :
             LET r == RunPass(order, 1, ReplicaStartPass(i, "check"), susp, NoFault)
             IN  /\ device_status' = r.ds
                 /\ replica' =
                       [replica EXCEPT
                          ![i] = [@ EXCEPT
                                    !.node_statuses = r.ns,
                                    !.suspended_devices = susp,
                                    !.last_keepalive_check_time = now,
                                    !.tick = [done |-> TRUE, keepalive |-> keepalive,
                                              suspended_store |-> suspended_store,
                                              events |-> events, eff |-> r.new_status]]]
    /\ UNCHANGED <<now, faults, events, store_rest, watchdog_memory, keepalive_memory>>
    /\ UNCHANGED other_than_replica

\* perform_heartbeat_write of instance i, no store call raising
replica_heartbeat_write(i) ==
    /\ ReplicaHeartbeatDue(i)
    /\ ~ReplicaCheckDue(i)
    /\ LET susp == suspended_store
           all_devices == susp \cup {d \in Devices : device_status[d] # <<>>}
       IN  \E order \in Orders(all_devices) :
             LET r == RunPass(order, 1, ReplicaStartPass(i, "heartbeat"), susp, NoFault)
             IN  /\ device_status' = r.ds
                 /\ replica' =
                       [replica EXCEPT
                          ![i] = [@ EXCEPT !.suspended_devices = susp,
                                           !.last_heartbeat_time = now]]
    /\ UNCHANGED <<now, faults, events, store_rest, watchdog_memory, keepalive_memory>>
    /\ UNCHANGED other_than_replica

\* one second of both main loops passes; each loop runs the passes that are
\* due before the clock moves on
ReplicaTick ==
    /\ now < MaxTime
    /\ \A i \in Instances : ~ReplicaCheckDue(i) /\ ~ReplicaHeartbeatDue(i)
    /\ \A d \in Devices : agent_pc[d] # "deleted"
    /\ now' = now + 1
    /\ agent_pc' = [d \in Devices |-> "idle"]
    /\ UNCHANGED <<device_status, faults, events, store_rest, watchdog_memory,
                   last_keepalive_sent>>
    /\ UNCHANGED <<replica_vars, other_than_replica>>

\* the second instance is started with the first or a second later
InitRepl ==
    /\ WatchdogInit
    /\ UptimeInit /\ ProbeInit /\ SettingsInit /\ ExitInit /\ AgentInit
    /\ AdminInit
    /\ \E start \in {0, 1} :
         replica = [i \in Instances |-> IF i = "a" THEN NewReplica(0) ELSE NewReplica(start)]

NextRepl ==
    \/ \E i \in Instances : replica_keepalive_check(i)
    \/ \E i \in Instances : replica_heartbeat_write(i)
    \/ \E d \in Devices : write_keepalive_delete(d)
    \/ \E d \in Devices : write_keepalive_insert(d)
    \/ \E d \in Devices : Suspend(d)
    \/ \E d \in Devices : Unsuspend(d)
    \/ ReplicaTick

SpecRepl == InitRepl /\ [][NextRepl]_vars

\* ------------------------------------------------------------------ two devices, one agent (src/test.py)

\* the records of the devices other than the agent's: a keepalive sent and a
\* status recorded by the watchdog before the agent of DEVICE_MAC starts
OtherKeepalive == {0}
OtherStatusEvents == <<[status |-> "up", time |-> 0, by |-> "check"]>>

\* the agent of DEVICE_MAC starts against a store that holds the records of
\* another device
InitDevices ==
    /\ now = 0
    /\ keepalive = [d \in Devices |-> IF d = DEVICE_MAC THEN {} ELSE OtherKeepalive]
    /\ device_status = [d \in Devices |->
                           IF d = DEVICE_MAC THEN <<>> ELSE OtherStatusEvents]
    /\ suspended_store = {}
    /\ suspended_devices = {}
    /\ node_statuses = [d \in Devices |-> IF d = DEVICE_MAC THEN None ELSE "up"]
    /\ last_keepalive_check_time = 0
    /\ last_heartbeat_time = 0
    /\ agent_pc = [d \in Devices |-> "idle"]
    /\ last_keepalive_sent = [d \in Devices |-> IF d = DEVICE_MAC THEN -1 ELSE 0]
    /\ prev_check = NoPrevCheck
    /\ faults = 0
    /\ events = 0
    /\ last_pass = NoPass
    /\ RestInit

\* every store operation of the agent: the keepalive emission (delete, then
\* insert), the status loop with its write, and the flush on exit
NextDevices ==
    \/ write_keepalive_delete(DEVICE_MAC)
    \/ write_keepalive_insert(DEVICE_MAC)
    \/ monitor_loop_begin
    \/ status_check
    \/ write_step
    \/ agent_sleep
    \/ agent_clean_exit
    \/ NetworkChange

SpecDevices == InitDevices /\ [][NextDevices]_vars

\* ------------------------------------------------------------------ both writers of one device, stable inputs

\* Times in this specification are relative to the present: now stays 0, a
\* second that passes moves the timers of the watchdog one second into the
\* past, and the keepalive record keeps its age, as it does for an agent that
\* emits steadily (age within the timeout) and for one whose emissions never
\* arrive (age beyond it).  Both writers read only the last StatusEvent of the
\* device; the retention of the store drops the older ones.

\* the keepalive record of the device as every tick finds it
KeepaliveRecency == {{0}, {0 - (CHECKALIVE + 1)}}

\* the retention policy of the store drops the StatusEvents before the last
retention_drop ==
    /\ Len(device_status[DEVICE_MAC]) > 1
    /\ device_status' = [device_status EXCEPT ![DEVICE_MAC] = <<@[Len(@)]>>]
    /\ last_pass' = NoPass
    /\ last_check' = NoCheck
    /\ last_append' = NoAppend
    /\ UNCHANGED <<now, keepalive, suspended_store, suspended_devices, node_statuses,
                   last_keepalive_check_time, last_heartbeat_time, agent_pc,
                   last_keepalive_sent, prev_check, faults, events>>
    /\ UNCHANGED <<network_up, status_events, last_status_written, agent_loop,
                   agent_running, current_status>>
    /\ UNCHANGED other_than_agent

\* a second passes (time.sleep(1) of both loops): the passes that were due
\* have run and the iteration of the agent has ended
StableTick ==
    /\ ~KeepaliveCheckDue
    /\ ~HeartbeatDue
    /\ agent_loop.pc = "sleep"
    /\ agent_loop' = [agent_loop EXCEPT !.pc = "top"]
    /\ last_keepalive_check_time' = last_keepalive_check_time - 1
    /\ last_heartbeat_time' = last_heartbeat_time - 1
    /\ last_pass' = NoPass
    /\ last_check' = NoCheck
    /\ last_append' = NoAppend
    /\ UNCHANGED <<now, keepalive, device_status, suspended_store, suspended_devices,
                   node_statuses, agent_pc, last_keepalive_sent, prev_check, faults,
                   events>>
    /\ UNCHANGED <<network_up, status_events, last_status_written, agent_running,
                   current_status>>
    /\ UNCHANGED other_than_agent

\* the inputs of the device, which no action changes: the result of the
\* probe, the age of the keepalive record, the membership in the suspension set
InitStable ==
    /\ now = 0
    /\ keepalive \in [Devices -> KeepaliveRecency \cup {{}}]
    /\ keepalive[DEVICE_MAC] \in KeepaliveRecency
    /\ \A d \in Devices \ {DEVICE_MAC} : keepalive[d] = {}
    /\ device_status = [d \in Devices |-> <<>>]
    /\ suspended_store \in {{}, {DEVICE_MAC}}
    /\ suspended_devices = {}
    /\ node_statuses = NoneMap
    /\ last_keepalive_check_time = 0
    /\ last_heartbeat_time = 0
    /\ agent_pc = [d \in Devices |-> "idle"]
    /\ last_keepalive_sent = [d \in Devices |-> -1]
    /\ prev_check = NoPrevCheck
    /\ faults = 0
    /\ events = 0
    /\ last_pass = NoPass
    /\ UptimeInit
    /\ ProbeInit
    /\ SettingsInit
    /\ ExitInit
    /\ network_up \in BOOLEAN
    /\ status_events = <<>>
    /\ last_status_written = FALSE
    /\ agent_loop = [pc |-> "top", current_time |-> 0]
    /\ agent_running = TRUE
    /\ last_check = NoCheck
    /\ last_append = NoAppend
    /\ ReplicaInit
    /\ AdminInit

\* the store holds at most the last StatusEvent when a writer acts
Compacted == Len(device_status[DEVICE_MAC]) <= 1

WatchdogPasses == Compacted /\ (perform_keepalive_check \/ perform_heartbeat_write)
AgentIteration ==
    Compacted /\ (monitor_loop_begin \/ (status_check /\ now' = now) \/ write_step)

NextStable ==
    \/ Compacted /\ perform_keepalive_check
    \/ Compacted /\ perform_heartbeat_write
    \/ Compacted /\ monitor_loop_begin
    \/ Compacted /\ status_check /\ now' = now
    \/ Compacted /\ write_step
    \/ Compacted /\ StableTick
    \/ retention_drop

\* both loops keep running: each takes the step it is at, and time passes
SpecStable ==
    /\ InitStable
    /\ [][NextStable]_vars
    /\ WF_vars(WatchdogPasses)
    /\ WF_vars(AgentIteration)
    /\ WF_vars(Compacted /\ StableTick)
    /\ WF_vars(retention_drop)

\* ------------------------------------------------------------------ after a suspension has ended (src/check.py)

\* the device whose suspension has ended
Unsuspended == "mac1"

\* a tick of the watchdog has recorded "maintenance" for the suspended
\* device, with or without a keepalive record of it in the store, and the
\* administrator has just removed the device from the suspension set
InitUnsuspended ==
    /\ now = 0
    /\ \E has_keepalive \in BOOLEAN :
         /\ keepalive = [d \in Devices |->
                            IF d = Unsuspended /\ has_keepalive THEN {0} ELSE {}]
         /\ last_keepalive_sent = [d \in Devices |->
                                      IF d = Unsuspended /\ has_keepalive THEN 0 ELSE -1]
    /\ device_status = [d \in Devices |->
                           IF d = Unsuspended
                           THEN <<[status |-> "maintenance", time |-> 0, by |-> "check"]>>
                           ELSE <<>>]
    /\ suspended_store = {}
    /\ suspended_devices = {Unsuspended}
    /\ node_statuses = [d \in Devices |-> IF d = Unsuspended THEN "maintenance" ELSE None]
    /\ last_keepalive_check_time = 0
    /\ last_heartbeat_time = 0
    /\ agent_pc = [d \in Devices |-> "idle"]
    /\ prev_check = NoPrevCheck
    /\ faults = 0
    /\ events = 0
    /\ last_pass = NoPass
    /\ RestInit

\* the watchdog and the agents go on; no device is suspended again
NextUnsuspended ==
    \/ perform_keepalive_check
    \/ perform_heartbeat_write
    \/ \E d \in Devices : write_keepalive_delete(d)
    \/ \E d \in Devices : write_keepalive_insert(d)
    \/ Tick

SpecUnsuspended == InitUnsuspended /\ [][NextUnsuspended]_vars

\* ------------------------------------------------------------------ admin console (src/admin_app.py)

\* what an add form may carry: an endpoint (by the kind of string it is), an
\* endpoint type and whether at least one test is ticked
AdminEndpoints == {"ipv4", "hostname", "http_url"}
EndpointTypes == {"IP", "FQDN", "other"}
Forms ==
    [endpoint : AdminEndpoints, endpoint_type : EndpointTypes, any_check : BOOLEAN]

\* fqdn_regex matches, the endpoint is no IP address and holds no scheme
IsFQDN(endpoint) == endpoint = "hostname"

\* add_endpoint, the validation of the form: the flash message of the
\* rejection, or "valid"
validate(form) ==
    IF ~form.any_check THEN "no_test"
    ELSE IF form.endpoint_type = "IP"
         THEN IF IsIPLiteral(form.endpoint) THEN "valid" ELSE "invalid_ip"
    ELSE IF form.endpoint_type = "FQDN"
         THEN IF IsFQDN(form.endpoint) THEN "valid" ELSE "invalid_fqdn"
    ELSE "invalid_type"

\* SELECT * FROM endpoints WHERE field_endpoint = .. AND field_type = ..
existing_points(form) ==
    {p \in endpoints : p.field_endpoint = form.endpoint /\ p.field_type = form.endpoint_type}

\* add_endpoint up to and including the check for an existing endpoint: the
\* request is rejected and redirected, or goes on to the write
add_endpoint_check(r, form) ==
    /\ add_request[r].pc = "idle"
    /\ ids_issued < MaxIds
    /\ LET outcome == IF validate(form) # "valid" THEN validate(form)
                      ELSE IF existing_points(form) # {} THEN "duplicate"
                      ELSE "checked"
       IN  /\ add_request' =
                 IF outcome = "checked"
                 THEN [add_request EXCEPT ![r] = [pc |-> "checked", form |-> form]]
                 ELSE add_request
           /\ last_add' = [request |-> r, outcome |-> outcome, before |-> endpoints]
    /\ UNCHANGED <<endpoints, ids_issued>>
    /\ UNCHANGED <<watchdog_vars, other_than_admin>>

\* add_endpoint, uuid4() and write_points of the new point
add_endpoint_write(r) ==
    /\ add_request[r].pc = "checked"
    /\ endpoints' = endpoints \cup
                       {[tag_id |-> ids_issued,
                         field_endpoint |-> add_request[r].form.endpoint,
                         field_type |-> add_request[r].form.endpoint_type]}
    /\ ids_issued' = ids_issued + 1
    /\ add_request' = [add_request EXCEPT ![r] = [pc |-> "idle", form |-> NoForm]]
    /\ last_add' = [request |-> r, outcome |-> "added", before |-> endpoints]
    /\ UNCHANGED <<watchdog_vars, other_than_admin>>

\* delete_endpoint: DELETE FROM endpoints WHERE tag_id = endpoint_id
delete_endpoint(endpoint_id) ==
    /\ \E p \in endpoints : p.tag_id = endpoint_id
    /\ endpoints' = {p \in endpoints : p.tag_id # endpoint_id}
    /\ last_add' = NoAdd
    /\ UNCHANGED <<add_request, ids_issued>>
    /\ UNCHANGED <<watchdog_vars, other_than_admin>>

NextAdmin ==
    \/ \E r \in Requests : \E form \in Forms : add_endpoint_check(r, form)
    \/ \E r \in Requests : add_endpoint_write(r)
    \/ \E endpoint_id \in 0..(MaxIds - 1) : delete_endpoint(endpoint_id)

\* the admin console serving add and delete requests in two threads
SpecAdmin == Init /\ [][NextAdmin]_vars

\* ================================================================== claims
LastEvent(d) == device_status[d][Len(device_status[d])]

\* a reconciliation tick in which no store call raised
CleanCheck ==
    /\ last_pass.kind = "check"
    /\ last_pass.error = "none"
    /\ ~last_pass.refresh_failed

\* a reconciliation tick of a run in which no store call has raised so far
FaultFreeCheck == last_pass.kind = "check" /\ faults = 0

\* the keepalive record of d is no older than the timeout
KeepaliveFresh(d) == d \in KeepaliveSeries /\ TimeDiff(d) <= CHECKALIVE

\* C1 (timeout invariant, as claimed): after a reconciliation tick, in a run
\* without any store error, every device that has a keepalive or status record, is
\* not suspended and whose last keepalive was sent longer ago than CHECKALIVE
\* has been evaluated by the tick with effective status "down".
C1_TimeoutInvariant ==
    FaultFreeCheck =>
        \A d \in Devices :
            ( /\ d \in KeepaliveSeries \/ last_pass.pre_last[d] # None
              /\ d \notin suspended_store
              /\ last_keepalive_sent[d] >= 0
              /\ now - last_keepalive_sent[d] > CHECKALIVE )
            => (d \in last_pass.evaluated /\ last_pass.new_status[d] = "down")

\* C2 (suspension precedence): in a reconciliation tick every device of the
\* suspension set the tick works with (the store's set whenever the refresh
\* query succeeded) gets the status "maintenance" computed and, where a write
\* happens, written, whatever its keepalive state; when no store call raises,
\* every suspended device is evaluated, also one without keepalive record.
C2_SuspensionPrecedence ==
    (last_pass.kind = "check" /\ last_pass.error # "keepalive_query") =>
        /\ ~last_pass.refresh_failed => suspended_devices = suspended_store
        /\ \A d \in suspended_devices :
              /\ d \in last_pass.evaluated => last_pass.new_status[d] = "maintenance"
              /\ d \in last_pass.written =>
                    /\ LastEvent(d).status = "maintenance"
                    /\ node_statuses[d] = "maintenance"
              /\ last_pass.error = "none" =>
                    /\ d \in last_pass.evaluated
                    /\ node_statuses[d] = "maintenance"

\* C2 witness: one tick writes "maintenance" for a suspended device whose
\* keepalive is fresh and for a suspended device without any keepalive record
C2_Witness ==
    /\ CleanCheck
    /\ \E d1, d2 \in suspended_store :
          /\ KeepaliveFresh(d1)
          /\ d2 \notin KeepaliveSeries
          /\ {d1, d2} \subseteq last_pass.written
          /\ LastEvent(d1).status = "maintenance"
          /\ LastEvent(d2).status = "maintenance"

\* C3 (write on change, as claimed): after a reconciliation tick, in a run
\* without any store error, every evaluated device whose effective status differs
\* from the status of the most recent StatusEvent in the store got a StatusEvent
\* appended by the tick, and its most recent StatusEvent carries the effective
\* status.
C3_WriteOnChange ==
    FaultFreeCheck =>
        \A d \in last_pass.evaluated :
            last_pass.new_status[d] # last_pass.pre_last[d]
            => (d \in last_pass.written /\ LastEvent(d).status = last_pass.new_status[d])

\* the events of d appended after the previous reconciliation tick
SincePreviousTick(d) ==
    {i \in 2..Len(device_status[d]) :
        device_status[d][i].time > last_keepalive_check_time - CHECKALIVE}

C5_HeartbeatBound ==
    \A d \in Devices :
        \A i \in 2..Len(device_status[d]) :
            device_status[d][i].time - device_status[d][i - 1].time <= HEARTBEAT

\* C6 (isolation, as claimed): when a store call raises for one device of a
\* pass, every other device of the pass is still processed: evaluated by a
\* reconciliation tick, written by a heartbeat pass.
C6_Isolation ==
    last_pass.error \in {"status_query", "write"} =>
        \A i \in 1..Len(last_pass.order) :
            last_pass.order[i] # last_pass.err_dev
            => /\ last_pass.order[i] \in last_pass.evaluated
               /\ last_pass.kind = "heartbeat" => last_pass.order[i] \in last_pass.written

\* C7 (failed status write): after a reconciliation tick the loop has re-armed
\* its timer; when the write for a device raised, node_statuses of that device
\* is what it was before the tick and no event was appended for it; and every
\* tick attempts the write for each device it evaluates whose effective status
\* differs from node_statuses, so the failed write is tried again.
C7_FailedWrite ==
    last_pass.kind = "check" =>
        /\ last_keepalive_check_time = now
        /\ last_pass.error = "write" =>
              /\ node_statuses[last_pass.err_dev] = last_pass.pre_node[last_pass.err_dev]
              /\ last_pass.err_dev \notin last_pass.written
              /\ LastStatus(device_status, last_pass.err_dev)
                    = last_pass.pre_last[last_pass.err_dev]
        /\ \A d \in last_pass.evaluated :
              last_pass.new_status[d] # last_pass.pre_node[d] => d \in last_pass.attempted

\* C7 witness: the write that failed in the previous tick succeeds in this one
C7_Witness ==
    /\ last_pass.kind = "check"
    /\ last_pass.prev_failed # None
    /\ last_pass.prev_failed \in last_pass.written
    /\ node_statuses[last_pass.prev_failed] = last_pass.new_status[last_pass.prev_failed]

\* C8 (unsuspension, as claimed): after a reconciliation tick, in a run
\* without any store error, a device whose most recent StatusEvent before the tick was
\* "maintenance", that is no longer suspended and whose keepalive is within
\* the timeout, got a StatusEvent "up" appended by the tick.
C8_Unsuspension ==
    FaultFreeCheck =>
        \A d \in Devices :
            ( /\ last_pass.pre_last[d] = "maintenance"
              /\ d \notin suspended_store
              /\ KeepaliveFresh(d) )
            => (d \in last_pass.written /\ LastEvent(d).status = "up")

\* C9 (unknown is distinct, as claimed): in a run without any store error,
\* every StatusEvent a pass of the watchdog writes for a device that is not suspended and never sent a
\* keepalive has status "unknown".
C9_UnknownDistinct ==
    (last_pass.kind # "none" /\ faults = 0) =>
        \A d \in last_pass.written :
            (d \notin suspended_store /\ last_keepalive_sent[d] = -1)
            => LastEvent(d).status = "unknown"

\* C10 (keepalive supersession): the store never holds more than one keepalive
\* record of a device, and when write_keepalive has returned without exception
\* it holds exactly one, timestamped at send time.
C10_KeepaliveSupersession ==
    \A d \in Devices :
        /\ Cardinality(keepalive[d]) <= 1
        /\ agent_pc[d] = "written" => keepalive[d] = {now}

\* C10 witness: a keepalive just written has replaced the record an earlier
\* reconciliation tick judged the device by
C10_Witness ==
    \E d \in Devices :
        /\ agent_pc[d] = "written"
        /\ keepalive[d] = {now}
        /\ \E i \in 1..Len(device_status[d]) :
              /\ device_status[d][i].by = "check"
              /\ device_status[d][i].status \in {"up", "down"}
              /\ device_status[d][i].time < now

\* ------------------------------------------------------------------ uptime claims

\* one period of the uptime calculation has just been computed without exception
Computed == last_calc.period # None /\ ~last_calc.raised

AllUp(points) == \A i \in 1..Len(points) : points[i].status = "up"
NoneUp(points) == \A i \in 1..Len(points) : points[i].status # "up"

\* C11 (uptime range, as claimed): for every status history of the device,
\* events timestamped after the sampled now included, the percentage computed
\* for a period lies between 0 and 100.
C11_UptimeRange ==
    Computed =>
        /\ 0 <= last_calc.result.num
        /\ last_calc.result.num <= 100 * last_calc.result.den

\* C12 (all-up window, as claimed): when the window holds at least one event
\* and every event in it is "up", the percentage is 100, wherever in the
\* window the first event lies.
C12_AllUp ==
    (Computed /\ last_calc.points # <<>> /\ AllUp(last_calc.points)) =>
        last_calc.result.num = 100 * last_calc.result.den

\* C13 (none-up window): when the window holds at least one event and no
\* event in it is "up", the percentage is 0.
C13_NoneUp ==
    (Computed /\ last_calc.points # <<>> /\ NoneUp(last_calc.points)) =>
        last_calc.result.num = 0

\* C13 witness: the hour window holds a single "down" event halfway
C13_Witness ==
    /\ Computed
    /\ last_calc.period = "hour"
    /\ Len(last_calc.points) = 1
    /\ last_calc.points[1].status = "down"
    /\ 2 * (last_calc.now - last_calc.points[1].time) = period_seconds["hour"]
    /\ last_calc.result.num = 0

\* ------------------------------------------------------------------ probe claim

\* the response is an HTTP success (2xx)
SuccessResponse(http) ==
    http.exc = "none" /\ http.status_code >= 200 /\ http.status_code < 300

\* C17 (probe fails closed): a call of the probe returns and never raises; it
\* returns true only when the endpoint is a literal IP address and the ping
\* succeeded, or the endpoint is not an IP address and the HTTP request
\* completed with a success response; everything else returns false.
C17_ProbeFailsClosed ==
    probe_result # NotCalled =>
        /\ probe_result.kind = "return"
        /\ probe_result.value \in {"True", "False"}
        /\ probe_result.value = "True" =>
              \/ IsIPLiteral(probe.endpoint) /\ probe.ping = "exit0"
              \/ ~IsIPLiteral(probe.endpoint) /\ SuccessResponse(probe.http)
        /\ ~(\/ IsIPLiteral(probe.endpoint) /\ probe.ping = "exit0"
             \/ ~IsIPLiteral(probe.endpoint) /\ SuccessResponse(probe.http)) =>
              probe_result.value = "False"

\* C17 witness: the HTTP request to a host name times out and the probe has
\* returned false
C17_Witness ==
    /\ probe.endpoint = "hostname"
    /\ probe.http.exc = "Timeout"
    /\ probe_result = Return("False")

\* ------------------------------------------------------------------ settings claims

Started(proc) == proc.state # "init"
LoadFailed == settings_query \in {"no_rows", "raises"}
BadSetting(n) == settings_store[n] \in {Absent, "abc"}

\* a process that has started runs its main loop, with the default for every
\* numeric setting of names that is missing or malformed
RunsWithDefaults(proc, names) ==
    /\ proc.state = "main_loop"
    /\ \A n \in names : BadSetting(n) => proc.value[n] = Defaults[n]

\* C15 (configuration errors never fatal, as claimed): when the settings query
\* returns rows, a missing or malformed numeric setting does not end the
\* watchdog or the agent: the process runs its main loop with the default
\* (120, 300, 60, 2, 120, 120) in place of that setting.
C15_ConfigNeverFatal ==
    ~LoadFailed =>
        /\ Started(watchdog_proc) => RunsWithDefaults(watchdog_proc, WatchdogSettings)
        /\ Started(agent_proc) => RunsWithDefaults(agent_proc, AgentSettings)

KnownStatus(d) == IF d \in suspended_devices THEN "maintenance" ELSE node_statuses[d]

\* C14 (final flush on termination, as claimed, for the watchdog): after the
\* watchdog has exited, in a run in which no store call raised, the most
\* recent StatusEvent of every device the watchdog tracks is the last status
\* the watchdog knew for it.
C14_FinalFlush ==
    (~watchdog_running /\ faults = 0) =>
        \A d \in Devices :
            KnownStatus(d) # None => LastStatus(device_status, d) = KnownStatus(d)

\* ------------------------------------------------------------------ status loop claims

\* C18 (agent writes status only on change, as claimed): a status check of
\* the agent queues a StatusEvent for writing only when the status it
\* computed differs from the last status recorded for the device in the
\* store, also when reading that last status fails.
C18_WriteOnlyOnChange ==
    (last_check.computed # None /\ last_check.queued) =>
        last_check.computed # last_check.store_last

\* C19 (per-device monotonic history, as claimed): no writer appends a
\* StatusEvent whose timestamp is earlier than that of an event already
\* stored for the device.
C19_MonotonicHistory ==
    last_append.by # None => last_append.first_time >= last_append.latest_stored

\* ------------------------------------------------------------------ replication claim

\* the effective status of a device: what a reconciliation tick computes now
EffectiveStatus(d) == NewStatus(d \in suspended_store, TimeDiff(d))

\* the devices a reconciliation tick evaluates
EvaluatedDevices == suspended_store \cup KeepaliveSeries

\* instance i has completed a reconciliation tick, the keepalive records and
\* the suspension set are as that tick read them and nothing has happened to
\* the store since, and the tick computed the statuses that are effective now
Settled(i) ==
    /\ replica[i].tick.done
    /\ replica[i].tick.keepalive = keepalive
    /\ replica[i].tick.suspended_store = suspended_store
    /\ replica[i].tick.events = events
    /\ \A d \in EvaluatedDevices : replica[i].tick.eff[d] = EffectiveStatus(d)

\* C20 (tolerated watchdog replication, as claimed): with two watchdog
\* instances against the same store, once the inputs are unchanged and both
\* instances have completed a reconciliation tick, the latest StatusEvent of
\* every evaluated device is the device's effective status.
C20_ReplicasConverge ==
    (faults = 0 /\ \A i \in Instances : Settled(i)) =>
        \A d \in EvaluatedDevices : LastStatus(device_status, d) = EffectiveStatus(d)

\* ------------------------------------------------------------------ empty window claim

\* no event returned for the period lies inside the window, which ends at the
\* sampled now
WindowEmpty == \A i \in 1..Len(last_calc.points) : last_calc.points[i].time > last_calc.now

\* C23 (uptime with an empty window, as claimed): when no StatusEvent of the
\* device lies inside the window, the percentage is 100 if the current status
\* is "up" and 0 for every other current status.
C23_EmptyWindow ==
    (Computed /\ WindowEmpty) =>
        last_calc.result = IF last_calc.current_status = "up" THEN Hundred ELSE Zero

\* the same when the query of the period returns no event at all
C23_NoPoints ==
    (Computed /\ last_calc.points = <<>>) =>
        last_calc.result = IF last_calc.current_status = "up" THEN Hundred ELSE Zero

\* ------------------------------------------------------------------ retry and suspension claims

\* C21 (transient agent failures are retried, as claimed): in a run in which
\* a single store call raised, an iteration of the agent's loop that ends
\* with StatusEvents still queued is the iteration in which they were queued
\* and their write raised; every later iteration, in which the store answers,
\* attempts the write again and leaves nothing queued.
C21_RetriedNextTick ==
    (agent_running /\ agent_loop.pc = "sleep" /\ faults = 1 /\ status_events # <<>>) =>
        status_events[1].timestamp = agent_loop.current_time

\* C30 (suspension holds across all writers, as claimed, for the agent): a
\* status check of the agent made while the device is in the suspension set
\* queues no StatusEvent other than "maintenance", also when the agent's read
\* of the suspension set fails.
C30_SuspensionHolds ==
    (last_check.computed # None /\ last_check.queued /\ last_check.suspended) =>
        last_check.computed = "maintenance"

\* ------------------------------------------------------------------ append-only claim

\* how many times the event e is stored in the series seq
Count(seq, e) == Cardinality({i \in DOMAIN seq : seq[i] = e})

\* every event of the series old is in the series new, as often and with the
\* same status, timestamp and writer
Kept(old, new) == \A i \in DOMAIN old : Count(new, old[i]) >= Count(old, old[i])

C22_ReaffirmationKeepsStatus ==
    (last_pass.kind = "heartbeat" /\ faults = 0) =>
        \A d \in last_pass.written :
            (d \notin suspended_store /\ d \notin suspended_devices)
            => last_pass.new_status[d] = last_pass.pre_last[d]

\* ------------------------------------------------------------------ liveness detection claims

\* the device has emitted a keepalive and the last one was sent no longer ago
\* than the timeout
Live(d) == last_keepalive_sent[d] >= 0 /\ now - last_keepalive_sent[d] <= CHECKALIVE

\* C27 (a live device is never reported down): a reconciliation tick appends
\* "down" only for a device whose last successful keepalive emission is
\* older than the timeout, wherever the tick falls between the delete and
\* the insert of an emission; a heartbeat pass appends "down" only for a
\* device for which a tick had recorded "down" before.  A device that emits
\* a keepalive within every timeout therefore never gets a "down" StatusEvent
\* from the watchdog.
C27_LiveNeverDown ==
    \A d \in last_pass.written :
        last_pass.new_status[d] = "down" =>
            /\ last_pass.kind = "check" => ~Live(d)
            /\ last_pass.kind = "heartbeat" => last_pass.pre_node[d] = "down"

\* C27 witness: a tick ran between the delete and the insert of a keepalive
\* emission of a device it had recorded "up" before, and wrote nothing for
\* the device
C27_Witness ==
    \E d \in Devices :
        /\ last_pass.kind = "check"
        /\ last_pass.error = "none"
        /\ agent_pc[d] = "deleted"
        /\ keepalive[d] = {}
        /\ d \notin suspended_store
        /\ Live(d)
        /\ last_pass.pre_last[d] = "up"
        /\ d \notin last_pass.written
        /\ LastStatus(device_status, d) = "up"

\* no pass has seen the device suspended: in a run without store error a pass
\* that does records "maintenance" for it
NeverSeenSuspended(d) ==
    /\ d \notin suspended_store
    /\ d \notin suspended_devices
    /\ \A i \in DOMAIN device_status[d] : device_status[d][i].status # "maintenance"

\* the watchdog has appended "down" for d after the keepalive sent at t0 and
\* no later than two timeouts and a loop tick after it
DownWithin(d, t0) ==
    \E i \in DOMAIN device_status[d] :
        /\ device_status[d][i].status = "down"
        /\ device_status[d][i].time > t0
        /\ device_status[d][i].time <= t0 + 2 * CHECKALIVE + 1

\* C28 (bounded detection): in a run without store error, once more than two
\* timeouts have passed since the last keepalive of a device that has not
\* been suspended and whose keepalive record is still in the store, the
\* watchdog has appended a "down" StatusEvent for it, no later than two
\* timeouts and one loop tick after that keepalive.
C28_BoundedDetection ==
    \A d \in Devices :
        ( /\ faults = 0
          /\ NeverSeenSuspended(d)
          /\ d \in KeepaliveSeries
          /\ now > Max(keepalive[d]) + 2 * CHECKALIVE )
        => DownWithin(d, Max(keepalive[d]))

\* C28 witness: the device was recorded "up" by the tick that followed its
\* last keepalive and "down" exactly two timeouts after that keepalive
C28_Witness ==
    \E d \in Devices :
        /\ faults = 0
        /\ NeverSeenSuspended(d)
        /\ d \in KeepaliveSeries
        /\ now > Max(keepalive[d]) + 2 * CHECKALIVE
        /\ Len(device_status[d]) >= 2
        /\ device_status[d][1].status = "up"
        /\ \E i \in DOMAIN device_status[d] :
              /\ device_status[d][i].status = "down"
              /\ device_status[d][i].by = "check"
              /\ device_status[d][i].time = Max(keepalive[d]) + 2 * CHECKALIVE

\* ------------------------------------------------------------------ interference claim

\* C24 (no cross-device interference): whatever store operations the agent
\* of DEVICE_MAC performs (keepalive delete, keepalive insert, status write,
\* flush on exit), the keepalive records and the StatusEvents of every other
\* device are the ones the store held when the agent started.
C24_NoInterference ==
    \A d \in Devices \ {DEVICE_MAC} :
        /\ keepalive[d] = OtherKeepalive
        /\ device_status[d] = OtherStatusEvents

\* C24 witness: the agent has just emitted a keepalive, delete and insert, and
\* has written a StatusEvent of its own before
C24_Witness ==
    /\ now > 0
    /\ agent_pc[DEVICE_MAC] = "written"
    /\ keepalive[DEVICE_MAC] = {now}
    /\ \E i \in DOMAIN device_status[DEVICE_MAC] :
          /\ device_status[DEVICE_MAC][i].by = "agent"
          /\ device_status[DEVICE_MAC][i].time < now
    /\ \A d \in Devices \ {DEVICE_MAC} :
          keepalive[d] = OtherKeepalive /\ device_status[d] = OtherStatusEvents

\* ------------------------------------------------------------------ settings snapshot claim

\* the values the start of a process derives from the settings dict it read
StartValues(proc) ==
    [n \in DOMAIN proc.value |->
        watchdog_setting([available |-> TRUE, values |-> proc.settings], n)]

\* C26 (settings are a startup snapshot): the liveness timeout and the
\* heartbeat interval a loop iteration of the watchdog works with, and the
\* status interval, keepalive period and thresholds a loop iteration of the
\* agent works with, are the values derived at start from the settings the
\* process read then, whatever the store holds by now.
C26_StartupSnapshot ==
    /\ (watchdog_proc.state = "main_loop" /\ watchdog_proc.iterated) =>
          watchdog_proc.used = StartValues(watchdog_proc)
    /\ (agent_proc.state = "main_loop" /\ agent_proc.iterated) =>
          agent_proc.used = StartValues(agent_proc)

\* C26 witness: both processes started without rows for CHECKALIVE and
\* KEEPALIVE, the rows were set to 7 afterwards, and iterations of both
\* loops have since worked with the defaults
C26_Witness ==
    /\ watchdog_proc.state = "main_loop" /\ watchdog_proc.iterated
    /\ agent_proc.state = "main_loop" /\ agent_proc.iterated
    /\ watchdog_proc.settings["CHECKALIVE"] = Absent
    /\ agent_proc.settings["KEEPALIVE"] = Absent
    /\ settings_store["CHECKALIVE"] = "7"
    /\ settings_store["KEEPALIVE"] = "7"
    /\ watchdog_proc.used["CHECKALIVE"] = Defaults["CHECKALIVE"]
    /\ agent_proc.used["KEEPALIVE"] = Defaults["KEEPALIVE"]

\* ------------------------------------------------------------------ flapping claim

\* C29 (no flapping between writers, as claimed): with the probe result, the
\* age of the keepalive record and the suspension membership constant, and
\* no store call ever raising, the status of the device's latest StatusEvent
\* eventually stops changing.
C29_NoFlapping ==
    \/ <>(faults > 0)
    \/ <>[](LastStatus(device_status, DEVICE_MAC) = "up")
    \/ <>[](LastStatus(device_status, DEVICE_MAC) = "down")
    \/ <>[](LastStatus(device_status, DEVICE_MAC) = "maintenance")
    \/ <>[](LastStatus(device_status, DEVICE_MAC) = "unknown")
    \/ <>[](LastStatus(device_status, DEVICE_MAC) = None)

\* ------------------------------------------------------------------ end of maintenance claim

\* a reconciliation tick and a heartbeat pass had completed, after the end of
\* the suspension at time 0, before the pass that has just run; ticks run
\* every CHECKALIVE and heartbeat passes every HEARTBEAT
FurtherPassesDone ==
    /\ last_pass.kind # "none"
    /\ IF last_pass.kind = "check" THEN now >= 2 * CHECKALIVE
                                   ELSE last_keepalive_check_time > 0
    /\ IF last_pass.kind = "heartbeat" THEN now >= 2 * HEARTBEAT
                                       ELSE last_heartbeat_time > 0

\* C31 (maintenance ends with the suspension, as claimed): in a run without
\* store error, once the watchdog has completed a tick and a heartbeat pass
\* after the device left the suspension set, no later pass appends a
\* "maintenance" StatusEvent for the device, with or without a keepalive
\* record of the device in the store.
C31_MaintenanceEnds ==
    (faults = 0 /\ FurtherPassesDone) =>
        ~ ( /\ Unsuspended \in last_pass.written
            /\ last_pass.new_status[Unsuspended] = "maintenance" )

\* ------------------------------------------------------------------ heartbeat coverage claim

\* a heartbeat pass in which no store call raised
CleanHeartbeat ==
    /\ last_pass.kind = "heartbeat"
    /\ last_pass.error = "none"
    /\ ~last_pass.refresh_failed

\* the StatusEvents of d the heartbeat pass that has just run appended
HeartbeatEvents(d) ==
    {i \in DOMAIN device_status[d] :
        device_status[d][i].by = "heartbeat" /\ device_status[d][i].time = now}

\* the devices with at least one StatusEvent before the pass
HadStatus == {d \in Devices : last_pass.pre_last[d] # None}

\* C32 (heartbeat coverage): a heartbeat pass that completes without error
\* appends exactly one StatusEvent for every device that is in the suspension
\* set or had a StatusEvent in the store, and none for any other device; the
\* status is "maintenance" for a suspended device, otherwise the status of
\* node_statuses, otherwise "unknown".
C32_HeartbeatCoverage ==
    CleanHeartbeat =>
        \A d \in Devices :
            IF d \in suspended_store \cup HadStatus
            THEN /\ Cardinality(HeartbeatEvents(d)) = 1
                 /\ LastEvent(d).by = "heartbeat"
                 /\ LastEvent(d).status =
                       IF d \in suspended_store THEN "maintenance"
                       ELSE IF node_statuses[d] # None THEN node_statuses[d]
                       ELSE "unknown"
            ELSE HeartbeatEvents(d) = {}

\* C32 witness: one pass wrote "maintenance" for a suspended device that had
\* no StatusEvent, and the status of node_statuses for a device that is not
\* suspended
C32_Witness ==
    /\ CleanHeartbeat
    /\ \E d, e \in Devices :
          /\ d \in suspended_store
          /\ last_pass.pre_last[d] = None
          /\ LastEvent(d).status = "maintenance"
          /\ e \notin suspended_store
          /\ node_statuses[e] \in {"up", "down"}
          /\ LastEvent(e).by = "heartbeat"
          /\ LastEvent(e).status = node_statuses[e]

\* ------------------------------------------------------------------ suspension refresh claim

\* C33 (stale suspension set on read failure): in every pass that gets as far
\* as refreshing the suspension dict, a failing query leaves the dict as the
\* last successful refresh left it, a successful query replaces it by the
\* device ids of the store, and the pass computes "maintenance" for the
\* devices of that dict it evaluates.
C33_StaleOnReadFailure ==
    [][(last_pass'.kind # "none" /\ last_pass'.error # "keepalive_query") =>
          /\ IF last_pass'.refresh_failed
             THEN suspended_devices' = suspended_devices
             ELSE suspended_devices' = suspended_store
          /\ \A d \in suspended_devices' \cap last_pass'.evaluated :
                last_pass'.new_status[d] = "maintenance"]_vars

\* C33 witness: a tick whose refresh query failed has worked with a device
\* that has left the suspension set of the store since the last successful
\* refresh, and computed "maintenance" for it
C33_Witness ==
    /\ last_pass.kind = "check"
    /\ last_pass.refresh_failed
    /\ last_pass.error = "none"
    /\ \E d \in suspended_devices \ suspended_store :
          /\ d \in last_pass.evaluated
          /\ last_pass.new_status[d] = "maintenance"

\* ------------------------------------------------------------------ uptime error claim

\* C34 (uptime on error): when the query of a period or the parsing of one of
\* its events raises, the call of calculate_uptime_percentages returns with
\* the hour, day and month percentages all 0, those computed earlier in the
\* call included.
C34_UptimeOnError ==
    last_calc.raised =>
        /\ calc.pc = "returned"
        /\ \A p \in DOMAIN uptime_percentage : uptime_percentage[p] = Zero

\* C34 witness: the store never held an event of the device and the current
\* status is "up", so the hour percentage was computed as 100; the day period
\* raised, and the hour percentage is 0
C34_Witness ==
    /\ last_calc.raised
    /\ last_calc.period = "day"
    /\ current_status = "up"
    /\ device_status[DEVICE_MAC] = <<>>
    /\ calc.pc = "returned"
    /\ uptime_percentage["hour"] = Zero

\* ------------------------------------------------------------------ endpoint uniqueness claim

\* the measurement holds at most one point for any (endpoint, type) pair
UniqueEndpoints ==
    \A p, q \in endpoints :
        (p.field_endpoint = q.field_endpoint /\ p.field_type = q.field_type) => p = q

\* a rejected add has left the measurement as it was
RejectedUnchanged ==
    (last_add.request # None /\ last_add.outcome \notin {"checked", "added"}) =>
        endpoints = last_add.before

\* C35 (endpoint uniqueness in the admin console, as claimed): after any
\* sequence of add and delete requests, two add requests for the same
\* endpoint whose check and write interleave included, the endpoints
\* measurement holds at most one point for any (endpoint, type) pair, and a
\* rejected add leaves the measurement unchanged.
C35_EndpointUniqueness == UniqueEndpoints /\ RejectedUnchanged

====
